---------------------------- MODULE Spec2Model ----------------------------
(***************************************************************************)
(* A model of the carbonintensity package (carbon_intensity.go, current   *)
(* revision): the APIHandler, its twelve public operations, the transport *)
(* call getAPIResponse and the three response decoders.                   *)
(*                                                                         *)
(* Time.  A time.Time is modelled as [sec, off]: the instant in whole      *)
(* seconds since the model's epoch (midnight UTC of day 0) and the zone    *)
(* offset in minutes east of UTC.  A time.Duration is a number of seconds. *)
(* A calendar date is modelled by its day number, which is in bijection    *)
(* with YYYY-MM-DD.                                                        *)
(*                                                                         *)
(* JSON.  A response body is a tagged value: [t |-> "invalid"] is text     *)
(* that is not JSON, and a JSON value is one of                            *)
(*   [t |-> "null"], [t |-> "num", twice |-> 2x], [t |-> "str", s |-> ..], *)
(*   [t |-> "arr", a |-> <<..>>], [t |-> "obj", o |-> [key |-> value]].    *)
(* A number x is stored as 2x so that a fractional number can be told      *)
(* from a whole one.                                                       *)
(*                                                                         *)
(* Errors.  The code builds its errors with fmt.Errorf; an error is        *)
(* modelled as a record holding the kind of the message and the values     *)
(* formatted into it.                                                      *)
(***************************************************************************)
EXTENDS Integers, Sequences, FiniteSets, TLC

VARIABLES
    serverAddress,  \* APIHandler.serverAddress
    call            \* per caller: the public operation it is executing

vars == <<serverAddress, call>>

-----------------------------------------------------------------------------
(* Bounds and constants *)

\* longest data array built from the core entries
MaxEntries == 2

\* time.Minute and time.Hour, in seconds
Minute == 60
Hour == 3600
Day == 24 * Hour

\* the limit of a range query: time.Hour * 24 * 30
MaxRange == Hour * 24 * 30

MinSettlementPeriod == 1
MaxSettlementPeriod == 48
MinBlockSizeHours == 1
MaxBlockSizeHours == 24

\* valIfNil as passed to unmarshalInt by the decoders
Sentinel == 0 - 1

natGridServerAddress == "https://api.carbonintensity.org.uk"

-----------------------------------------------------------------------------
(* time.Time *)

Time(sec, off) == [sec |-> sec, off |-> off]

\* Before with the comparison loosened to "not later"
BeforeOrEqual(t, u) == t.sec <= u.sec

\* t.Before(u): the instants are compared, whatever the zones
Before(t, u) == t.sec < u.sec

\* t.Sub(u), a Duration
Sub(t, u) == t.sec - u.sec

\* the wall clock of t in its own zone, in seconds since the epoch's midnight
Wall(t) == t.sec + t.off * Minute

\* date.Date(): year, month and day of t in its zone, as a day number
Date(t) == Wall(t) \div Day

\* a variant of Format for a layout that spells the seconds out
FormatWithSeconds(t) ==
    [day |-> Date(t),
     hh  |-> (Wall(t) % Day) \div Hour,
     mm  |-> (Wall(t) % Hour) \div Minute,
     ss  |-> Wall(t) % Minute,
     off |-> t.off]

\* t.Format(natGridTimeFormat), layout "2006-01-02T15:04Z07:00": the date,
\* the hour and the minute of the wall clock and the zone offset; the seconds
\* have no place in the layout
Format(t) ==
    [day |-> Date(t),
     hh  |-> (Wall(t) % Day) \div Hour,
     mm  |-> (Wall(t) % Hour) \div Minute,
     off |-> t.off]

\* The texts in natGridTimeFormat that response bodies of the model hold,
\* each with the fields it spells out (day 0 is 2018-05-15).
TimeStrings ==
    [s \in {"2018-05-15T00:00Z", "2018-05-15T00:30Z", "2018-05-15T01:00Z",
            "2018-05-15T01:30+01:00"} |->
        CASE s = "2018-05-15T00:00Z" -> [day |-> 0, hh |-> 0, mm |-> 0, off |-> 0]
          [] s = "2018-05-15T00:30Z" -> [day |-> 0, hh |-> 0, mm |-> 30, off |-> 0]
          [] s = "2018-05-15T01:00Z" -> [day |-> 0, hh |-> 1, mm |-> 0, off |-> 0]
          [] s = "2018-05-15T01:30+01:00" -> [day |-> 0, hh |-> 1, mm |-> 30, off |-> 60]]

\* time.Parse(natGridTimeFormat, s): an error unless s is in the layout
ParseFails(s) == s \notin DOMAIN TimeStrings

\* time.Parse(natGridTimeFormat, s) for a text in the layout: the instant is
\* the wall clock less the offset
Parse(s) ==
    LET f == TimeStrings[s]
    IN  Time(f.day * Day + f.hh * Hour + f.mm * Minute - f.off * Minute, f.off)

\* Go's conversion and integer division truncate toward zero
TruncDiv(a, b) == IF a >= 0 THEN a \div b ELSE 0 - ((0 - a) \div b)

-----------------------------------------------------------------------------
(* JSON values, as json.Unmarshal hands them over in an interface{} *)

Null == [t |-> "null"]
Num(x) == [t |-> "num", twice |-> 2 * x]
Half(x2) == [t |-> "num", twice |-> x2]
Str(s) == [t |-> "str", s |-> s]
Arr(a) == [t |-> "arr", a |-> a]
Obj(o) == [t |-> "obj", o |-> o]
NotJSON == [t |-> "invalid"]

\* m[key] on a map[string]interface{}: nil when the key is absent, and nil
\* when the key holds JSON null
Index(m, key) == IF key \in DOMAIN m THEN m[key] ELSE Null

\* v.(string), v.(float64), v.([]interface{}), v.(map[string]interface{})
\* without the comma-ok form: the assertion panics on any other dynamic type,
\* nil included
IsString(v) == v.t = "str"
IsFloat64(v) == v.t = "num"
IsSlice(v) == v.t = "arr"
IsMap(v) == v.t = "obj"

\* int(f) of a float64
IntOf(v) == TruncDiv(v.twice, 2)

-----------------------------------------------------------------------------
(* Errors and return values *)

NoError == [kind |-> "nil"]

\* the error without the bytes of the body
MalformedResponseNoBody(data) == [kind |-> "MalformedResponse", body |-> [t |-> "none"]]

\* fmt.Errorf("Failed to unmarshal JSON; %s", string(data))
MalformedResponse(data) == [kind |-> "MalformedResponse", body |-> data]

\* the arguments of the format in the other order
APIErrorSwapped(code, message) == [kind |-> "APIError", code |-> message, message |-> code]

\* fmt.Errorf("API error; Code: %s Message: %s", code, message)
APIError(code, message) == [kind |-> "APIError", code |-> code, message |-> message]

\* fmt.Errorf("Unexpected API response; unexpected number of entries; %s", ...)
UnexpectedEntryCount(data) == [kind |-> "UnexpectedEntryCount", body |-> data]

\* the errors of encoding/json: a text that is not JSON, and a JSON value
\* that is no object where a map[string]interface{} is decoded
SyntaxError == [kind |-> "json.SyntaxError"]
UnmarshalTypeError == [kind |-> "json.UnmarshalTypeError"]

\* the outcome of a decoder: it returns an error, returns nil with the
\* entries it has stored, or panics on a failed type assertion
DecodeError(e) == [st |-> "err", err |-> e]
DecodeOk(entries) == [st |-> "ok", entries |-> entries]
DecodePanic == [st |-> "panic"]

\* what a public operation hands back: (value, error), or an unrecovered panic
NilValue == [t |-> "nil"]
ListValue(entries) == [t |-> "list", entries |-> entries]
PtrValue(v) == [t |-> "ptr", v |-> v]
Returned(val, err) == [st |-> "returned", val |-> val, err |-> err]
Panicked == [st |-> "panic"]
NotReturned == [st |-> "none"]

-----------------------------------------------------------------------------
(* The decoders *)

\* json.Unmarshal(data, &decoded) with decoded a map[string]interface{}:
\* the error it returns
UnmarshalMapError(data) ==
    CASE data.t = "invalid" -> SyntaxError
      [] data.t \in {"obj", "null"} -> NoError
      [] OTHER -> UnmarshalTypeError

\* the map it leaves in decoded: JSON null leaves the nil map, which reads
\* as an empty one
UnmarshalMap(data) == IF data.t = "obj" THEN data.o ELSE <<>>

\* unmarshalInt panics on a value that is neither nil nor a float64
unmarshalIntPanics(val) == val # Null /\ ~IsFloat64(val)

\* unmarshalInt with the zero value for nil
unmarshalIntZero(val, valIfNil) == IF val = Null THEN 0 ELSE IntOf(val)

unmarshalInt(val, valIfNil) == IF val = Null THEN valIfNil ELSE IntOf(val)

\* The part of the three decoders before the data array is read: the error
\* returned when decoded["data"] is nil, and whether that part panics.
EnvelopePanics(decoded) ==
    /\ Index(decoded, "data") = Null
    /\ Index(decoded, "error") # Null
    /\ \/ ~IsMap(Index(decoded, "error"))
       \/ ~IsString(Index(Index(decoded, "error").o, "code"))
       \/ ~IsString(Index(Index(decoded, "error").o, "message"))

\* a variant that looks at the error field before the data field
EnvelopeErrorFirst(decoded, data) ==
    IF Index(decoded, "error") # Null
    THEN LET errorMap == Index(decoded, "error").o
         IN  APIError(Index(errorMap, "code").s, Index(errorMap, "message").s)
    ELSE IF Index(decoded, "data") = Null
    THEN MalformedResponse(data)
    ELSE NoError

EnvelopeError(decoded, data) ==
    IF Index(decoded, "data") = Null
    THEN IF Index(decoded, "error") = Null
         THEN MalformedResponse(data)
         ELSE LET errorMap == Index(decoded, "error").o
              IN  APIError(Index(errorMap, "code").s, Index(errorMap, "message").s)
    ELSE NoError

\* One turn of the loop of intensityResponse.UnmarshalJSON over a value of
\* the data array: "panic", "stop" (a time that does not parse: return nil)
\* or the entry to append.
IntensityEntryStep(value) ==
    IF ~IsMap(value) THEN [st |-> "panic"]
    ELSE LET decodedDataEntry == value.o
             to == Index(decodedDataEntry, "to")
             from == Index(decodedDataEntry, "from")
             intensity == Index(decodedDataEntry, "intensity")
         IN  IF ~IsString(to) THEN [st |-> "panic"]
             ELSE IF ParseFails(to.s) THEN [st |-> "stop"]
             ELSE IF ~IsString(from) THEN [st |-> "panic"]
             ELSE IF ParseFails(from.s) THEN [st |-> "stop"]
             ELSE IF ~IsMap(intensity) THEN [st |-> "panic"]
             ELSE LET decodedIntensity == intensity.o
                  IN  IF \/ unmarshalIntPanics(Index(decodedIntensity, "forecast"))
                         \/ unmarshalIntPanics(Index(decodedIntensity, "actual"))
                         \/ ~IsString(Index(decodedIntensity, "index"))
                      THEN [st |-> "panic"]
                      ELSE [st |-> "entry",
                            e |-> [From |-> Parse(from.s),
                                   To |-> Parse(to.s),
                                   Forecast |-> unmarshalInt(Index(decodedIntensity, "forecast"), Sentinel),
                                   Actual |-> unmarshalInt(Index(decodedIntensity, "actual"), Sentinel),
                                   Index |-> Index(decodedIntensity, "index").s]]

\* One turn of the loop of statisticsResponse.UnmarshalJSON
StatisticsEntryStep(value) ==
    IF ~IsMap(value) THEN [st |-> "panic"]
    ELSE LET decodedDataEntry == value.o
             to == Index(decodedDataEntry, "to")
             from == Index(decodedDataEntry, "from")
             intensity == Index(decodedDataEntry, "intensity")
         IN  IF ~IsString(to) THEN [st |-> "panic"]
             ELSE IF ParseFails(to.s) THEN [st |-> "stop"]
             ELSE IF ~IsString(from) THEN [st |-> "panic"]
             ELSE IF ParseFails(from.s) THEN [st |-> "stop"]
             ELSE IF ~IsMap(intensity) THEN [st |-> "panic"]
             ELSE LET decodedIntensity == intensity.o
                  IN  IF \/ unmarshalIntPanics(Index(decodedIntensity, "max"))
                         \/ unmarshalIntPanics(Index(decodedIntensity, "average"))
                         \/ unmarshalIntPanics(Index(decodedIntensity, "min"))
                         \/ ~IsString(Index(decodedIntensity, "index"))
                      THEN [st |-> "panic"]
                      ELSE [st |-> "entry",
                            e |-> [From |-> Parse(from.s),
                                   To |-> Parse(to.s),
                                   Max |-> unmarshalInt(Index(decodedIntensity, "max"), Sentinel),
                                   Average |-> unmarshalInt(Index(decodedIntensity, "average"), Sentinel),
                                   Min |-> unmarshalInt(Index(decodedIntensity, "min"), Sentinel),
                                   Index |-> Index(decodedIntensity, "index").s]]

\* The loop over decodedData from position i on, entries being the ones
\* appended so far; kind chooses the decoder ("intensity" or "statistics").
RECURSIVE DecodeLoop(_, _, _, _)
DecodeLoop(kind, decodedData, i, entries) ==
    IF i > Len(decodedData) THEN DecodeOk(entries)
    ELSE LET step == IF kind = "intensity"
                     THEN IntensityEntryStep(decodedData[i])
                     ELSE StatisticsEntryStep(decodedData[i])
         IN  CASE step.st = "panic" -> DecodePanic
               [] step.st = "stop" -> DecodeOk(entries)
               [] OTHER -> DecodeLoop(kind, decodedData, i + 1, Append(entries, step.e))

\* json.Unmarshal(responseBytes, &response) through UnmarshalJSON
UnmarshalJSON(kind, data) ==
    IF UnmarshalMapError(data) # NoError THEN DecodeError(UnmarshalMapError(data))
    ELSE LET decoded == UnmarshalMap(data)
         IN  IF EnvelopePanics(decoded) THEN DecodePanic
             ELSE IF EnvelopeError(decoded, data) # NoError
                  THEN DecodeError(EnvelopeError(decoded, data))
             ELSE IF ~IsSlice(Index(decoded, "data")) THEN DecodePanic
             ELSE DecodeLoop(kind, Index(decoded, "data").a, 1, <<>>)

\* (ir *intensityResponse) UnmarshalJSON
intensityResponseUnmarshalJSON(data) == UnmarshalJSON("intensity", data)

\* (sr *statisticsResponse) UnmarshalJSON
statisticsResponseUnmarshalJSON(data) == UnmarshalJSON("statistics", data)

-----------------------------------------------------------------------------
(* GetIntensityFactors: the decode it does itself *)

FactorKeys ==
    {"Biomass", "Coal", "Dutch Imports", "French Imports", "Gas (Combined Cycle)",
     "Gas (Open Cycle)", "Hydro", "Irish Imports", "Nuclear", "Oil", "Other",
     "Pumped Storage", "Solar", "Wind"}

\* int(factorDict[key].(float64))
FactorPanics(factorDict, key) == ~IsFloat64(Index(factorDict, key))
Factor(factorDict, key) == IntOf(Index(factorDict, key))

\* a variant of the literal in which the two gas fields read each other's key
IntensityFactorsGasSwapped(factorDict) ==
    [Biomass          |-> Factor(factorDict, "Biomass"),
     Coal             |-> Factor(factorDict, "Coal"),
     DutchImports     |-> Factor(factorDict, "Dutch Imports"),
     FrenchImports    |-> Factor(factorDict, "French Imports"),
     GasCombinedCycle |-> Factor(factorDict, "Gas (Open Cycle)"),
     GasOpenCycle     |-> Factor(factorDict, "Gas (Combined Cycle)"),
     Hydro            |-> Factor(factorDict, "Hydro"),
     IrishImports     |-> Factor(factorDict, "Irish Imports"),
     Nuclear          |-> Factor(factorDict, "Nuclear"),
     Oil              |-> Factor(factorDict, "Oil"),
     Other            |-> Factor(factorDict, "Other"),
     PumpedStorage    |-> Factor(factorDict, "Pumped Storage"),
     Solar            |-> Factor(factorDict, "Solar"),
     Wind             |-> Factor(factorDict, "Wind")]

\* the IntensityFactors literal
IntensityFactors(factorDict) ==
    [Biomass          |-> Factor(factorDict, "Biomass"),
     Coal             |-> Factor(factorDict, "Coal"),
     DutchImports     |-> Factor(factorDict, "Dutch Imports"),
     FrenchImports    |-> Factor(factorDict, "French Imports"),
     GasCombinedCycle |-> Factor(factorDict, "Gas (Combined Cycle)"),
     GasOpenCycle     |-> Factor(factorDict, "Gas (Open Cycle)"),
     Hydro            |-> Factor(factorDict, "Hydro"),
     IrishImports     |-> Factor(factorDict, "Irish Imports"),
     Nuclear          |-> Factor(factorDict, "Nuclear"),
     Oil              |-> Factor(factorDict, "Oil"),
     Other            |-> Factor(factorDict, "Other"),
     PumpedStorage    |-> Factor(factorDict, "Pumped Storage"),
     Solar            |-> Factor(factorDict, "Solar"),
     Wind             |-> Factor(factorDict, "Wind")]

\* GetIntensityFactors from the response bytes on
FactorsResult(responseBytes) ==
    IF UnmarshalMapError(responseBytes) # NoError
    THEN Returned(NilValue, UnmarshalMapError(responseBytes))
    ELSE LET response == UnmarshalMap(responseBytes)
         IN  IF EnvelopePanics(response) THEN Panicked
             ELSE IF EnvelopeError(response, responseBytes) # NoError
                  THEN Returned(NilValue, EnvelopeError(response, responseBytes))
             ELSE IF ~IsSlice(Index(response, "data")) THEN Panicked
             ELSE LET responseData == Index(response, "data").a
                  IN  IF Len(responseData) # 1
                      THEN Returned(NilValue, UnexpectedEntryCount(responseBytes))
                      ELSE IF ~IsMap(responseData[1]) THEN Panicked
                      ELSE IF \E key \in FactorKeys : FactorPanics(responseData[1].o, key)
                           THEN Panicked
                      ELSE Returned(PtrValue(IntensityFactors(responseData[1].o)), NoError)

-----------------------------------------------------------------------------
(* The public operations from the response bytes on *)

\* a variant that returns the entries last first
EntriesResultReversed(decoded) ==
    CASE decoded.st = "panic" -> Panicked
      [] decoded.st = "err" -> Returned(NilValue, decoded.err)
      [] OTHER -> Returned(ListValue([i \in 1..Len(decoded.entries) |->
                                         decoded.entries[Len(decoded.entries) + 1 - i]]),
                           NoError)

\* the operations that return response.entries
EntriesResult(decoded) ==
    CASE decoded.st = "panic" -> Panicked
      [] decoded.st = "err" -> Returned(NilValue, decoded.err)
      [] OTHER -> Returned(ListValue(decoded.entries), NoError)

\* a variant that only refuses an empty list of entries
SingleEntryResultAtLeastOne(decoded, responseBytes) ==
    CASE decoded.st = "panic" -> Panicked
      [] decoded.st = "err" -> Returned(NilValue, decoded.err)
      [] OTHER -> IF Len(decoded.entries) < 1
                  THEN Returned(NilValue, UnexpectedEntryCount(responseBytes))
                  ELSE Returned(PtrValue(decoded.entries[1]), NoError)

\* the operations that check len(response.entries) != 1 and return
\* response.entries[0]
SingleEntryResult(decoded, responseBytes) ==
    CASE decoded.st = "panic" -> Panicked
      [] decoded.st = "err" -> Returned(NilValue, decoded.err)
      [] OTHER -> IF Len(decoded.entries) # 1
                  THEN Returned(NilValue, UnexpectedEntryCount(responseBytes))
                  ELSE Returned(PtrValue(decoded.entries[1]), NoError)

ListOperations ==
    {"GetIntensityForDay", "GetTodaysIntensity", "GetIntensityBetween",
     "GetNext24HourIntensity", "GetNext48HourIntensity", "GetPrior24HourIntensity",
     "GetStatisticsInBlocks"}

SingleOperations ==
    {"GetIntensityForDayAndSettlementPeriod", "GetIntensityForTimePeriod",
     "GetCurrentIntensity", "GetStatistics"}

StatisticsOperations == {"GetStatistics", "GetStatisticsInBlocks"}

Operations == ListOperations \cup SingleOperations \cup {"GetIntensityFactors"}

\* what operation op returns once getAPIResponse has handed it responseBytes
Continue(op, responseBytes) ==
    IF op = "GetIntensityFactors" THEN FactorsResult(responseBytes)
    ELSE LET decoded == IF op \in StatisticsOperations
                        THEN statisticsResponseUnmarshalJSON(responseBytes)
                        ELSE intensityResponseUnmarshalJSON(responseBytes)
         IN  IF op \in SingleOperations
             THEN SingleEntryResult(decoded, responseBytes)
             ELSE EntriesResult(decoded)

-----------------------------------------------------------------------------
(* Parameter validation and the request *)

\* fmt.Errorf("Invalid settlmentPeriod %d; must be 1 <= settlementPeriod <= 48", ...)
InvalidParameter(settlementPeriod) ==
    [kind |-> "InvalidParameter", settlementPeriod |-> settlementPeriod]

\* fmt.Errorf("from (%s) must be strictly earlier than to (%s)", ...)
InvalidRange(from, to) == [kind |-> "InvalidRange", from |-> from, to |-> to]

\* fmt.Errorf("The maximum date range is limited to 30 days. From (%s) To (%s)", ...)
RangeTooLarge(from, to) == [kind |-> "RangeTooLarge", from |-> from, to |-> to]

\* fmt.Errorf("Invalid blocksize %s; must be between 1 and 24 hours inclusive", ...)
InvalidBlockSize(blockSize) == [kind |-> "InvalidBlockSize", blockSize |-> blockSize]

\* the check with its upper limit off by one
SettlementPeriodErrorOffByOne(settlementPeriod) ==
    IF settlementPeriod < MinSettlementPeriod \/ settlementPeriod >= MaxSettlementPeriod
    THEN InvalidParameter(settlementPeriod)
    ELSE NoError

\* the check of GetIntensityForDayAndSettlementPeriod
SettlementPeriodError(settlementPeriod) ==
    IF settlementPeriod < MinSettlementPeriod \/ settlementPeriod > MaxSettlementPeriod
    THEN InvalidParameter(settlementPeriod)
    ELSE NoError

\* the two checks with a span of exactly 30 days refused
RangeErrorAtLimit(from, to) ==
    IF ~Before(from, to) THEN InvalidRange(from, to)
    ELSE IF Sub(to, from) >= MaxRange THEN RangeTooLarge(from, to)
    ELSE NoError

\* the two checks that open GetIntensityBetween, GetStatistics and
\* GetStatisticsInBlocks
RangeError(from, to) ==
    IF ~Before(from, to) THEN InvalidRange(from, to)
    ELSE IF Sub(to, from) > MaxRange THEN RangeTooLarge(from, to)
    ELSE NoError

\* the hours rounded to the nearest instead of truncated
BlockSizeHoursRounded(blockSize) == (blockSize + Hour \div 2) \div Hour

\* int(blockSize.Hours())
BlockSizeHours(blockSize) == TruncDiv(blockSize, Hour)

\* the check of the block size in GetStatisticsInBlocks
BlockSizeError(blockSize) ==
    IF \/ BlockSizeHours(blockSize) < MinBlockSizeHours
       \/ BlockSizeHours(blockSize) > MaxBlockSizeHours
    THEN InvalidBlockSize(blockSize)
    ELSE NoError

\* fmt.Sprintf("%s%s", ah.serverAddress, resource)
URL(resource) == [server |-> serverAddress, resource |-> resource]

NoURL == [server |-> "", resource |-> [tmpl |-> ""]]
NoBody == [t |-> "none"]

\* What a caller is doing: the operation and its parameters, the URL given
\* to http.Get and the number of GETs issued for this call, what the
\* transport answered (an error or a body) and what the operation returned.
Idle == [pc |-> "idle", op |-> "", args |-> [none |-> TRUE], url |-> NoURL,
         gets |-> 0, transportErr |-> NoError, body |-> NoBody, ret |-> NotReturned]

\* a caller may enter an operation when it is in none
CanCall(c) == call[c].pc = "idle"

\* the frame of an operation that has just been entered
Entered(op, args) ==
    [pc |-> "running", op |-> op, args |-> args, url |-> NoURL,
     gets |-> 0, transportErr |-> NoError, body |-> NoBody, ret |-> NotReturned]

\* a variant whose checks return an empty list together with the error
RejectWithEmptyList(c, op, args, err) ==
    /\ call' = [call EXCEPT ![c] =
                    [Entered(op, args) EXCEPT !.pc = "done",
                                              !.ret = Returned(ListValue(<<>>), err)]]
    /\ UNCHANGED serverAddress

\* the operation returns (nil, err) from its checks
Reject(c, op, args, err) ==
    /\ call' = [call EXCEPT ![c] =
                    [Entered(op, args) EXCEPT !.pc = "done",
                                              !.ret = Returned(NilValue, err)]]
    /\ UNCHANGED serverAddress

\* getAPIResponse issuing the GET a second time
getAPIResponseTwice(frame, resource) ==
    [frame EXCEPT !.pc = "waiting", !.url = URL(resource), !.gets = @ + 2]

\* ah.getAPIResponse(resource) up to http.Get: one GET of the URL is issued
\* and the caller blocks until the transport answers
getAPIResponse(frame, resource) ==
    [frame EXCEPT !.pc = "waiting", !.url = URL(resource), !.gets = @ + 1]

\* a variant in which the handler falls back to the production address once
\* it has issued a request
RequestRebased(c, op, args, resource) ==
    /\ call' = [call EXCEPT ![c] = getAPIResponse(Entered(op, args), resource)]
    /\ serverAddress' = natGridServerAddress

Request(c, op, args, resource) ==
    /\ call' = [call EXCEPT ![c] = getAPIResponse(Entered(op, args), resource)]
    /\ UNCHANGED serverAddress

-----------------------------------------------------------------------------
(* The public operations, each up to its call of getAPIResponse *)

GetIntensityForDay(c, date) ==
    /\ CanCall(c)
    /\ Request(c, "GetIntensityForDay", [date |-> date],
               [tmpl |-> "/intensity/date/%04d-%02d-%02d", day |-> Date(date)])

GetIntensityForDayAndSettlementPeriod(c, date, settlementPeriod) ==
    /\ CanCall(c)
    /\ LET args == [date |-> date, settlementPeriod |-> settlementPeriod]
       IN  IF SettlementPeriodError(settlementPeriod) # NoError
           THEN Reject(c, "GetIntensityForDayAndSettlementPeriod", args,
                       SettlementPeriodError(settlementPeriod))
           ELSE Request(c, "GetIntensityForDayAndSettlementPeriod", args,
                        [tmpl |-> "/intensity/date/%04d-%02d-%02d/%d",
                         day |-> Date(date), n |-> settlementPeriod])

GetTodaysIntensity(c) ==
    /\ CanCall(c)
    /\ Request(c, "GetTodaysIntensity", [none |-> TRUE], [tmpl |-> "/intensity/date"])

GetIntensityForTimePeriod(c, time) ==
    /\ CanCall(c)
    /\ Request(c, "GetIntensityForTimePeriod", [time |-> time],
               [tmpl |-> "/intensity/%s", from |-> Format(time)])

GetCurrentIntensity(c) ==
    /\ CanCall(c)
    /\ Request(c, "GetCurrentIntensity", [none |-> TRUE], [tmpl |-> "/intensity"])

GetIntensityBetween(c, from, to) ==
    /\ CanCall(c)
    /\ LET args == [from |-> from, to |-> to]
       IN  IF RangeError(from, to) # NoError
           THEN Reject(c, "GetIntensityBetween", args, RangeError(from, to))
           ELSE Request(c, "GetIntensityBetween", args,
                        [tmpl |-> "/intensity/%s/%s",
                         from |-> Format(from), to |-> Format(to)])

GetNext24HourIntensity(c, from) ==
    /\ CanCall(c)
    /\ Request(c, "GetNext24HourIntensity", [from |-> from],
               [tmpl |-> "/intensity/%s/fw24h", from |-> Format(from)])

\* a variant copied from GetNext24HourIntensity with its path left as it was
GetNext48HourIntensityCopied(c, from) ==
    /\ CanCall(c)
    /\ Request(c, "GetNext48HourIntensity", [from |-> from],
               [tmpl |-> "/intensity/%s/fw24h", from |-> Format(from)])

GetNext48HourIntensity(c, from) ==
    /\ CanCall(c)
    /\ Request(c, "GetNext48HourIntensity", [from |-> from],
               [tmpl |-> "/intensity/%s/fw48h", from |-> Format(from)])

GetPrior24HourIntensity(c, from) ==
    /\ CanCall(c)
    /\ Request(c, "GetPrior24HourIntensity", [from |-> from],
               [tmpl |-> "/intensity/%s/pt24h", from |-> Format(from)])

GetIntensityFactors(c) ==
    /\ CanCall(c)
    /\ Request(c, "GetIntensityFactors", [none |-> TRUE], [tmpl |-> "/intensity/factors"])

GetStatistics(c, from, to) ==
    /\ CanCall(c)
    /\ LET args == [from |-> from, to |-> to]
       IN  IF RangeError(from, to) # NoError
           THEN Reject(c, "GetStatistics", args, RangeError(from, to))
           ELSE Request(c, "GetStatistics", args,
                        [tmpl |-> "/intensity/stats/%s/%s",
                         from |-> Format(from), to |-> Format(to)])

\* GetStatisticsInBlocks with the block size checked before the range
GetStatisticsInBlocksBlockSizeFirst(c, from, to, blockSize) ==
    /\ CanCall(c)
    /\ LET args == [from |-> from, to |-> to, blockSize |-> blockSize]
       IN  IF BlockSizeError(blockSize) # NoError
           THEN Reject(c, "GetStatisticsInBlocks", args, BlockSizeError(blockSize))
           ELSE IF RangeError(from, to) # NoError
           THEN Reject(c, "GetStatisticsInBlocks", args, RangeError(from, to))
           ELSE Request(c, "GetStatisticsInBlocks", args,
                        [tmpl |-> "/intensity/stats/%s/%s/%d",
                         from |-> Format(from), to |-> Format(to),
                         n |-> BlockSizeHours(blockSize)])

\* GetStatisticsInBlocks without its checks
GetStatisticsInBlocksUnchecked(c, from, to, blockSize) ==
    /\ CanCall(c)
    /\ Request(c, "GetStatisticsInBlocks",
               [from |-> from, to |-> to, blockSize |-> blockSize],
               [tmpl |-> "/intensity/stats/%s/%s/%d",
                from |-> Format(from), to |-> Format(to),
                n |-> BlockSizeHours(blockSize)])

GetStatisticsInBlocks(c, from, to, blockSize) ==
    /\ CanCall(c)
    /\ LET args == [from |-> from, to |-> to, blockSize |-> blockSize]
       IN  IF RangeError(from, to) # NoError
           THEN Reject(c, "GetStatisticsInBlocks", args, RangeError(from, to))
           ELSE IF BlockSizeError(blockSize) # NoError
           THEN Reject(c, "GetStatisticsInBlocks", args, BlockSizeError(blockSize))
           ELSE Request(c, "GetStatisticsInBlocks", args,
                        [tmpl |-> "/intensity/stats/%s/%s/%d",
                         from |-> Format(from), to |-> Format(to),
                         n |-> BlockSizeHours(blockSize)])

-----------------------------------------------------------------------------
(* The transport answers *)

\* the error of the transport wrapped in another one
TransportErrorWrapped(err) == Returned(NilValue, [kind |-> "request failed", cause |-> err])

\* http.Get or ioutil.ReadAll returns an error: getAPIResponse returns it
\* and the operation returns (nil, err)
TransportError(err) == Returned(NilValue, err)

getAPIResponseFails(c, err) ==
    /\ call[c].pc = "waiting"
    /\ call' = [call EXCEPT ![c].pc = "done",
                            ![c].transportErr = err,
                            ![c].ret = TransportError(err)]
    /\ UNCHANGED serverAddress

\* a variant in which the handler keeps the body it has read and hands it to
\* every call that is waiting for one
getAPIResponseReturnsShared(c, responseBytes) ==
    /\ call[c].pc = "waiting"
    /\ call' = [d \in DOMAIN call |->
                   IF call[d].pc = "waiting"
                   THEN [call[d] EXCEPT !.pc = "done",
                                        !.body = responseBytes,
                                        !.ret = Continue(call[d].op, responseBytes)]
                   ELSE call[d]]
    /\ UNCHANGED serverAddress

\* the body is read: the operation decodes it and returns
getAPIResponseReturns(c, responseBytes) ==
    /\ call[c].pc = "waiting"
    /\ call' = [call EXCEPT ![c].pc = "done",
                            ![c].body = responseBytes,
                            ![c].ret = Continue(call[c].op, responseBytes)]
    /\ UNCHANGED serverAddress

\* the caller takes what the operation returned and is free to call again
Return(c) ==
    /\ call[c].pc = "done"
    /\ call[c].ret.st = "returned"
    /\ call' = [call EXCEPT ![c] = Idle]
    /\ UNCHANGED serverAddress

-----------------------------------------------------------------------------
(* The inputs: parameters of the callers and answers of the server *)

Callers == {"c1"}

testServerAddress == "http://127.0.0.1:8080"

\* instants around the edges of the checks: the same minute, the next
\* minute, the end of a day, 30 days and one second more
Instants == {0, 10, Minute, Day - 30 * Minute, MaxRange, MaxRange + 1}
Offsets == {0, 60}
Times == {Time(sec, off) : sec \in Instants, off \in Offsets}

SettlementPeriods == {0 - 1, 0, 1, 24, 48, 49}

\* -1h, 0, 59m, 1h, 3h59m, 4h, 24h, 24h59m, 25h
BlockSizes ==
    {0 - Hour, 0, 59 * Minute, Hour, 3 * Hour + 59 * Minute, 4 * Hour,
     24 * Hour, 24 * Hour + 59 * Minute, 25 * Hour}

TransportErrors ==
    {[kind |-> "transport", from |-> "http.Get"],
     [kind |-> "transport", from |-> "ioutil.ReadAll"]}

EmptyMap == [key \in {} |-> Null]

IntensityJSON(from, to, intensity) ==
    Obj([from |-> from, to |-> to, intensity |-> Obj(intensity)])

T0000 == Str("2018-05-15T00:00Z")
T0030 == Str("2018-05-15T00:30Z")
T0100 == Str("2018-05-15T01:00Z")
T0130BST == Str("2018-05-15T01:30+01:00")
NoTime == Str("2018-05-15 00:30")

\* entries of the national intensity resources
IntensityLow ==
    IntensityJSON(T0000, T0030, [forecast |-> Num(50), actual |-> Null, index |-> Str("low")])
IntensityModerate ==
    IntensityJSON(T0030, T0100, [actual |-> Num(148), index |-> Str("moderate")])
IntensityFraction ==
    IntensityJSON(T0130BST, T0100,
                  [forecast |-> Half(501), actual |-> Half(0 - 3), index |-> Str("high")])
IntensityNoNumbers == IntensityJSON(T0000, T0030, [index |-> Str("low")])
IntensityBadTo ==
    IntensityJSON(T0000, NoTime, [forecast |-> Num(50), actual |-> Num(48), index |-> Str("low")])
IntensityBadFrom ==
    IntensityJSON(NoTime, T0030, [forecast |-> Num(50), actual |-> Num(48), index |-> Str("low")])
IntensityNoIndex == IntensityJSON(T0000, T0030, [forecast |-> Num(50), actual |-> Num(48)])
IntensityTextNumber ==
    IntensityJSON(T0000, T0030, [forecast |-> Str("50"), actual |-> Null, index |-> Str("low")])
IntensityBackwards ==
    IntensityJSON(T0030, T0000, [forecast |-> Num(50), actual |-> Num(48), index |-> Str("low")])
IntensityNoFrom ==
    Obj([to |-> T0030, intensity |-> Obj([forecast |-> Num(50), index |-> Str("low")])])
IntensityNoIntensity == Obj([from |-> T0000, to |-> T0030])

\* entries of the statistics resources
StatisticsFull ==
    IntensityJSON(T0000, T0100,
                  [max |-> Num(300), average |-> Num(200), min |-> Num(100),
                   index |-> Str("moderate")])
StatisticsPartial ==
    IntensityJSON(T0000, T0100, [max |-> Null, min |-> Num(100), index |-> Str("low")])
StatisticsNoIndex ==
    IntensityJSON(T0000, T0100, [max |-> Num(300), average |-> Num(200), min |-> Num(100)])

\* the object of /intensity/factors, whole and with one key left out
FactorsFull ==
    Obj([key \in FactorKeys |->
            CASE key = "Biomass" -> Num(120)
              [] key = "Coal" -> Num(937)
              [] key = "Dutch Imports" -> Num(474)
              [] key = "French Imports" -> Num(53)
              [] key = "Gas (Combined Cycle)" -> Num(394)
              [] key = "Gas (Open Cycle)" -> Num(651)
              [] key = "Hydro" -> Num(0)
              [] key = "Irish Imports" -> Num(458)
              [] key = "Nuclear" -> Num(1)
              [] key = "Oil" -> Num(935)
              [] key = "Other" -> Num(300)
              [] key = "Pumped Storage" -> Num(2)
              [] key = "Solar" -> Num(3)
              [] OTHER -> Num(4)])
FactorsNoWind == Obj([key \in FactorKeys \ {"Wind"} |-> FactorsFull.o[key]])

\* the entries that data arrays of any length are built from
CoreEntries == {IntensityLow, IntensityBadTo, StatisticsFull}

\* the entries that appear alone in a data array
OtherEntries ==
    {IntensityModerate, IntensityFraction, IntensityNoNumbers, IntensityBadFrom,
     IntensityNoIndex, IntensityTextNumber, IntensityBackwards, IntensityNoFrom,
     IntensityNoIntensity, StatisticsPartial, StatisticsNoIndex, FactorsFull,
     FactorsNoWind, Num(7)}

SeqsUpTo(S, n) == UNION {[1..k -> S] : k \in 0..n}

\* the answer to a week of statistics in 4-hour blocks: 7 * 24 / 4 entries
BlocksInAWeek == (7 * 24) \div 4
BlocksOfAWeek ==
    [i \in 1..BlocksInAWeek |-> IF i % 2 = 1 THEN StatisticsFull ELSE StatisticsPartial]

DataArrays ==
    SeqsUpTo(CoreEntries, MaxEntries)
        \cup {<<e>> : e \in OtherEntries}
        \cup {<<IntensityModerate, IntensityBadFrom>>, <<IntensityLow, IntensityModerate>>}
        \cup {BlocksOfAWeek}

ErrorJSON == Obj([code |-> Str("400 Bad Request"), message |-> Str("Please enter a valid date")])

\* the response bodies the server may send
Bodies ==
    {Obj([data |-> Arr(a)]) : a \in DataArrays}
        \cup {Obj([data |-> Arr(<<IntensityLow>>), error |-> ErrorJSON]),
              Obj([data |-> IntensityLow]),
              Obj([error |-> ErrorJSON]),
              Obj([data |-> Null, error |-> ErrorJSON]),
              Obj([error |-> Str("Bad Request")]),
              Obj([error |-> Obj([code |-> Num(400), message |-> Str("bad request")])]),
              Obj([error |-> Obj([code |-> Str("400")])]),
              Obj(EmptyMap),
              Obj([data |-> Null]),
              Obj([status |-> Str("ok")]),
              Null,
              Arr(<<>>),
              Num(3),
              NotJSON}

-----------------------------------------------------------------------------
(* The specification *)

\* NewCarbonIntensityAPIHandler, or newCarbonIntensityAPIHandlerInternal with
\* the address of a test server
Init ==
    /\ serverAddress \in {natGridServerAddress, testServerAddress}
    /\ call = [c \in Callers |-> Idle]

Next ==
    \E c \in DOMAIN call :
        \/ \E date \in Times : GetIntensityForDay(c, date)
        \/ \E date \in Times, settlementPeriod \in SettlementPeriods :
               GetIntensityForDayAndSettlementPeriod(c, date, settlementPeriod)
        \/ GetTodaysIntensity(c)
        \/ \E time \in Times : GetIntensityForTimePeriod(c, time)
        \/ GetCurrentIntensity(c)
        \/ \E from \in Times, to \in Times : GetIntensityBetween(c, from, to)
        \/ \E from \in Times : GetNext24HourIntensity(c, from)
        \/ \E from \in Times : GetNext48HourIntensity(c, from)
        \/ \E from \in Times : GetPrior24HourIntensity(c, from)
        \/ GetIntensityFactors(c)
        \/ \E from \in Times, to \in Times : GetStatistics(c, from, to)
        \/ \E from \in Times, to \in Times, blockSize \in BlockSizes :
               GetStatisticsInBlocks(c, from, to, blockSize)
        \/ \E err \in TransportErrors : getAPIResponseFails(c, err)
        \/ \E responseBytes \in Bodies : getAPIResponseReturns(c, responseBytes)
        \/ Return(c)

Spec == Init /\ [][Next]_vars

-----------------------------------------------------------------------------
(* Two callers on one handler: the goroutines of a program that shares its
   APIHandler. Each caller runs the operations as above; the steps of the two
   interleave in any order, http.Get answering each GET on its own. *)

ConcurrentCallers == {"c1", "c2"}

ConcurrentTimes == {Time(0, 0), Time(Hour, 0)}
ConcurrentSettlementPeriods == {0, 1}
ConcurrentBlockSizes == {0, Hour}
ConcurrentTransportErrors == {[kind |-> "transport", from |-> "http.Get"]}

ConcurrentBodies ==
    {Obj([data |-> Arr(<<IntensityLow>>)]),
     Obj([data |-> Arr(<<StatisticsFull>>)]),
     Obj([data |-> Arr(<<FactorsFull>>)]),
     Obj([data |-> Arr(<<IntensityLow, IntensityModerate>>)]),
     Obj([error |-> ErrorJSON])}

InitConcurrent ==
    /\ serverAddress \in {natGridServerAddress, testServerAddress}
    /\ call = [c \in ConcurrentCallers |-> Idle]

NextConcurrent ==
    \E c \in DOMAIN call :
        \/ \E date \in ConcurrentTimes : GetIntensityForDay(c, date)
        \/ \E date \in ConcurrentTimes, settlementPeriod \in ConcurrentSettlementPeriods :
               GetIntensityForDayAndSettlementPeriod(c, date, settlementPeriod)
        \/ GetTodaysIntensity(c)
        \/ \E time \in ConcurrentTimes : GetIntensityForTimePeriod(c, time)
        \/ GetCurrentIntensity(c)
        \/ \E from \in ConcurrentTimes, to \in ConcurrentTimes :
               GetIntensityBetween(c, from, to)
        \/ \E from \in ConcurrentTimes : GetNext24HourIntensity(c, from)
        \/ \E from \in ConcurrentTimes : GetNext48HourIntensity(c, from)
        \/ \E from \in ConcurrentTimes : GetPrior24HourIntensity(c, from)
        \/ GetIntensityFactors(c)
        \/ \E from \in ConcurrentTimes, to \in ConcurrentTimes : GetStatistics(c, from, to)
        \/ \E from \in ConcurrentTimes, to \in ConcurrentTimes,
              blockSize \in ConcurrentBlockSizes :
               GetStatisticsInBlocks(c, from, to, blockSize)
        \/ \E err \in ConcurrentTransportErrors : getAPIResponseFails(c, err)
        \/ \E responseBytes \in ConcurrentBodies : getAPIResponseReturns(c, responseBytes)
        \/ Return(c)

SpecConcurrent == InitConcurrent /\ [][NextConcurrent]_vars

-----------------------------------------------------------------------------
(* The claims *)

RangeOperations == {"GetIntensityBetween", "GetStatistics", "GetStatisticsInBlocks"}

\* the operation of caller c has returned (nil, err) with an error of kind k
Failed(c, k) ==
    /\ call[c].pc = "done"
    /\ call[c].ret.st = "returned"
    /\ call[c].ret.val = [t |-> "nil"]
    /\ call[c].ret.err.kind = k

\* the operation has gone past its checks: its GET has been issued
Issued(c) == call[c].pc \in {"waiting", "done"} /\ call[c].gets >= 1

\* what the claims say of the parameters, in seconds
ThirtyDays == 30 * 24 * 3600
FromBeforeTo(c) == call[c].args.from.sec < call[c].args.to.sec
Span(c) == call[c].args.to.sec - call[c].args.from.sec
RangeOk(c) == FromBeforeTo(c) /\ Span(c) <= ThirtyDays

\* the whole hours of a duration of d seconds, cut toward zero
WholeHours(d) ==
    CHOOSE h \in (0 - 30)..30 :
        IF d >= 0 THEN h * 3600 <= d /\ d < (h + 1) * 3600
                  ELSE (h - 1) * 3600 < d /\ d <= h * 3600

\* C1: GetIntensityForDayAndSettlementPeriod accepts a settlement period p
\* exactly when 1 <= p <= 48: outside it returns the InvalidParameter error,
\* inside the checks pass and the request is issued.
C1_SettlementPeriodRange ==
    \A c \in DOMAIN call :
        call[c].op = "GetIntensityForDayAndSettlementPeriod" =>
            LET p == call[c].args.settlementPeriod
            IN  IF 1 <= p /\ p <= 48
                THEN Issued(c) /\ call[c].url.resource.n = p
                ELSE Failed(c, "InvalidParameter") /\ call[c].ret.err.settlementPeriod = p

C1_Witness ==
    \E c \in DOMAIN call :
        /\ call[c].op = "GetIntensityForDayAndSettlementPeriod"
        /\ call[c].args.settlementPeriod = 49
        /\ Failed(c, "InvalidParameter")

\* C2: in each of the three range operations, from equal to to or later
\* than to makes the operation fail with the InvalidRange error.
C2_InvalidRange ==
    \A c \in DOMAIN call :
        (call[c].op \in RangeOperations /\ ~FromBeforeTo(c)) => Failed(c, "InvalidRange")

C2_Witness ==
    \E c \in DOMAIN call :
        /\ call[c].op = "GetStatistics"
        /\ call[c].args.from.sec = call[c].args.to.sec
        /\ Failed(c, "InvalidRange")

\* C3: in each of the three range operations with from < to, the range
\* checks pass for every span up to and including exactly 30 days, and the
\* operation fails with RangeTooLarge for every longer span.
C3_RangeLimit ==
    \A c \in DOMAIN call :
        (call[c].op \in RangeOperations /\ FromBeforeTo(c)) =>
            IF Span(c) <= ThirtyDays
            THEN \/ Issued(c)
                 \/ call[c].op = "GetStatisticsInBlocks" /\ Failed(c, "InvalidBlockSize")
            ELSE Failed(c, "RangeTooLarge")

C3_Witness ==
    \E c \in DOMAIN call :
        /\ call[c].op = "GetIntensityBetween"
        /\ Span(c) = ThirtyDays
        /\ Issued(c)

\* C4: GetStatisticsInBlocks with a valid range cuts blockSize to whole hours
\* h and accepts it exactly when 1 <= h <= 24: 59m and 25h fail with
\* InvalidBlockSize, 3h59m and 24h59m pass, and the path holds h.
C4_BlockSize ==
    \A c \in DOMAIN call :
        (call[c].op = "GetStatisticsInBlocks" /\ RangeOk(c)) =>
            LET d == call[c].args.blockSize
                h == WholeHours(d)
            IN  /\ IF 1 <= h /\ h <= 24
                   THEN Issued(c) /\ call[c].url.resource.n = h
                   ELSE Failed(c, "InvalidBlockSize")
                /\ d \in {59 * 60, 25 * 3600} => Failed(c, "InvalidBlockSize")
                /\ d = 3 * 3600 + 59 * 60 => Issued(c) /\ call[c].url.resource.n = 3
                /\ d = 24 * 3600 + 59 * 60 => Issued(c) /\ call[c].url.resource.n = 24

C4_Witness ==
    \E c \in DOMAIN call :
        /\ call[c].op = "GetStatisticsInBlocks"
        /\ call[c].args.blockSize = 3 * 3600 + 59 * 60
        /\ call[c].pc = "waiting"
        /\ call[c].url.resource.n = 3

\* the parameters of the call of c fail one of the checks the specification
\* lists
ParametersInvalid(c) ==
    \/ /\ call[c].op = "GetIntensityForDayAndSettlementPeriod"
       /\ (call[c].args.settlementPeriod < 1 \/ call[c].args.settlementPeriod > 48)
    \/ call[c].op \in RangeOperations /\ ~RangeOk(c)
    \/ /\ call[c].op = "GetStatisticsInBlocks"
       /\ (WholeHours(call[c].args.blockSize) < 1 \/ WholeHours(call[c].args.blockSize) > 24)

\* C5: a call whose parameters fail a check never issues a GET: it has
\* returned an error with no request made.
C5_NoRequestWhenInvalid ==
    \A c \in DOMAIN call :
        (call[c].op \in Operations /\ ParametersInvalid(c)) =>
            /\ call[c].gets = 0
            /\ call[c].url = NoURL
            /\ call[c].pc = "done"
            /\ call[c].ret.st = "returned"
            /\ call[c].ret.err # [kind |-> "nil"]

C5_Witness ==
    \E c \in DOMAIN call :
        /\ call[c].op = "GetStatisticsInBlocks"
        /\ RangeOk(c)
        /\ call[c].args.blockSize = 59 * 60
        /\ call[c].pc = "done"
        /\ call[c].gets = 0

\* C6: an operation whose parameters pass the checks issues exactly one GET
\* before it ends, whatever the outcome (a result, a transport failure, a
\* decode failure), the range and statistics-in-blocks queries included.
C6_ExactlyOneRequest ==
    \A c \in DOMAIN call :
        (call[c].op \in Operations /\ ~ParametersInvalid(c)) =>
            /\ call[c].gets = 1
            /\ call[c].url.server = serverAddress

C6_Witness ==
    \E c \in DOMAIN call :
        /\ call[c].op = "GetStatisticsInBlocks"
        /\ call[c].pc = "done"
        /\ call[c].ret.st = "returned"
        /\ call[c].ret.val.t = "list"
        /\ Len(call[c].ret.val.entries) = 2
        /\ call[c].gets = 1

\* C7: when the GET fails the operation returns that transport error
\* unchanged with a nil result; it issues no second GET and decodes nothing.
C7_TransportFailure ==
    \A c \in DOMAIN call :
        call[c].transportErr # [kind |-> "nil"] =>
            /\ call[c].pc = "done"
            /\ call[c].ret = [st |-> "returned", val |-> [t |-> "nil"],
                               err |-> call[c].transportErr]
            /\ call[c].gets = 1
            /\ call[c].body = NoBody

C7_Witness ==
    \E c \in DOMAIN call :
        /\ call[c].op = "GetIntensityForDay"
        /\ call[c].transportErr = [kind |-> "transport", from |-> "http.Get"]
        /\ call[c].ret.st = "returned"
        /\ call[c].ret.err = call[c].transportErr

\* the body is a JSON object without the key
Lacks(body, key) == body.t = "obj" /\ key \notin DOMAIN body.o

\* the body is an error envelope: no data, and an error object whose code
\* and message are strings
ErrorEnvelope(body) ==
    /\ Lacks(body, "data")
    /\ ~Lacks(body, "error")
    /\ body.o["error"].t = "obj"
    /\ {"code", "message"} \subseteq DOMAIN body.o["error"].o
    /\ body.o["error"].o["code"].t = "str"
    /\ body.o["error"].o["message"].t = "str"

\* C8: for every operation, an error envelope is surfaced as the failure of
\* the call: an APIError with the code and the message of the body, and no
\* records.
C8_ErrorEnvelope ==
    \A c \in DOMAIN call :
        (call[c].pc = "done" /\ ErrorEnvelope(call[c].body)) =>
            call[c].ret =
                [st |-> "returned", val |-> [t |-> "nil"],
                 err |-> [kind |-> "APIError",
                          code |-> call[c].body.o["error"].o["code"].s,
                          message |-> call[c].body.o["error"].o["message"].s]]

C8_Witness ==
    \E c \in DOMAIN call :
        /\ call[c].op = "GetIntensityFactors"
        /\ ErrorEnvelope(call[c].body)
        /\ Failed(c, "APIError")
        /\ call[c].ret.err.code = "400 Bad Request"

\* C9: for every operation, a JSON object with neither a data nor an error
\* field fails with MalformedResponse, and the error holds the raw body.
C9_MalformedResponse ==
    \A c \in DOMAIN call :
        (call[c].pc = "done" /\ Lacks(call[c].body, "data") /\ Lacks(call[c].body, "error")) =>
            call[c].ret =
                [st |-> "returned", val |-> [t |-> "nil"],
                 err |-> [kind |-> "MalformedResponse", body |-> call[c].body]]

C9_Witness ==
    \E c \in DOMAIN call :
        /\ call[c].op = "GetStatistics"
        /\ call[c].body = Obj([status |-> Str("ok")])
        /\ Failed(c, "MalformedResponse")
        /\ call[c].ret.err.body = call[c].body

\* the value the specification gives a numeric field of a JSON object: -1
\* when the field is absent or null, the number when it is a whole number
Known(o, key) == key \in DOMAIN o /\ o[key].t = "num"
Whole(o, key) == Known(o, key) /\ o[key].twice % 2 = 0
Unavailable(o, key) == key \notin DOMAIN o \/ o[key].t = "null"
FieldAsSpecified(o, key, field) ==
    /\ Unavailable(o, key) => field = 0 - 1
    /\ Whole(o, key) => field * 2 = o[key].twice

\* an entry whose times parse and whose intensity object has a string index
\* and, in each numeric field of keys, nothing, null or a number
EntryDecodes(e, keys) ==
    /\ e.t = "obj"
    /\ {"from", "to", "intensity"} \subseteq DOMAIN e.o
    /\ e.o["from"].t = "str" /\ e.o["from"].s \in DOMAIN TimeStrings
    /\ e.o["to"].t = "str" /\ e.o["to"].s \in DOMAIN TimeStrings
    /\ e.o["intensity"].t = "obj"
    /\ "index" \in DOMAIN e.o["intensity"].o
    /\ e.o["intensity"].o["index"].t = "str"
    /\ \A key \in keys : Unavailable(e.o["intensity"].o, key) \/ Known(e.o["intensity"].o, key)

\* the body is a success envelope whose entries all decode
AllDecode(body, keys) ==
    /\ ~Lacks(body, "data")
    /\ body.t = "obj"
    /\ body.o["data"].t = "arr"
    /\ \A i \in 1..Len(body.o["data"].a) : EntryDecodes(body.o["data"].a[i], keys)

IntensityKeys == {"forecast", "actual"}
StatisticsKeys == {"max", "average", "min"}

\* the records an operation has returned, as a sequence
Records(ret) == IF ret.val.t = "list" THEN ret.val.entries ELSE <<ret.val.v>>

RecordAsSpecified(op, o, r) ==
    IF op \in StatisticsOperations
    THEN /\ FieldAsSpecified(o, "max", r.Max)
         /\ FieldAsSpecified(o, "average", r.Average)
         /\ FieldAsSpecified(o, "min", r.Min)
    ELSE /\ FieldAsSpecified(o, "forecast", r.Forecast)
         /\ FieldAsSpecified(o, "actual", r.Actual)

\* C10: in a decoded entry each of forecast, actual, max, average and min
\* that is absent or null is -1 and the decode still succeeds, and a number
\* that is present is kept: forecast 50 with actual null gives Forecast = 50
\* and Actual = -1.
C10_NumericSentinel ==
    \A c \in DOMAIN call :
        LET keys == IF call[c].op \in StatisticsOperations
                    THEN StatisticsKeys ELSE IntensityKeys
            body == call[c].body
        IN  ( /\ call[c].pc = "done"
              /\ call[c].op \in ListOperations \cup SingleOperations
              /\ AllDecode(body, keys)
              /\ call[c].op \in SingleOperations => Len(body.o["data"].a) = 1 ) =>
                /\ call[c].ret.st = "returned"
                /\ call[c].ret.err = [kind |-> "nil"]
                /\ Len(Records(call[c].ret)) = Len(body.o["data"].a)
                /\ \A i \in 1..Len(body.o["data"].a) :
                       RecordAsSpecified(call[c].op, body.o["data"].a[i].o["intensity"].o,
                                         Records(call[c].ret)[i])

C10_Witness ==
    \E c \in DOMAIN call :
        /\ call[c].op = "GetIntensityForTimePeriod"
        /\ call[c].body = Obj([data |-> Arr(<<IntensityLow>>)])
        /\ call[c].ret.st = "returned"
        /\ call[c].ret.val.t = "ptr"
        /\ call[c].ret.val.v.Forecast = 50
        /\ call[c].ret.val.v.Actual = 0 - 1

\* the decoder of the operation: the numeric keys it reads
KeysOf(op) == IF op \in StatisticsOperations THEN StatisticsKeys ELSE IntensityKeys

\* the operation of caller c has returned an error and nothing else
ReturnedError(c) ==
    /\ call[c].ret.st = "returned"
    /\ call[c].ret.val = [t |-> "nil"]
    /\ call[c].ret.err # [kind |-> "nil"]

\* the body is a success envelope with a data array
DataArray(body) ==
    /\ body.t = "obj"
    /\ "data" \in DOMAIN body.o
    /\ body.o["data"].t = "arr"

\* an entry that would decode but for its intensity object having no index
EntryLacksIndex(e, keys) ==
    /\ e.t = "obj"
    /\ {"from", "to", "intensity"} \subseteq DOMAIN e.o
    /\ e.o["from"].t = "str" /\ e.o["from"].s \in DOMAIN TimeStrings
    /\ e.o["to"].t = "str" /\ e.o["to"].s \in DOMAIN TimeStrings
    /\ e.o["intensity"].t = "obj"
    /\ "index" \notin DOMAIN e.o["intensity"].o
    /\ \A key \in keys : Unavailable(e.o["intensity"].o, key) \/ Known(e.o["intensity"].o, key)

\* C11: when an entry of a success envelope has no index field, the decode
\* fails and the operation returns an error to the caller, for intensity and
\* for statistics entries alike.
C11_MissingIndexIsError ==
    \A c \in DOMAIN call :
        ( /\ call[c].pc = "done"
          /\ call[c].op \in ListOperations \cup SingleOperations
          /\ DataArray(call[c].body)
          /\ \A i \in 1..Len(call[c].body.o["data"].a) :
                 \/ EntryDecodes(call[c].body.o["data"].a[i], KeysOf(call[c].op))
                 \/ EntryLacksIndex(call[c].body.o["data"].a[i], KeysOf(call[c].op))
          /\ \E i \in 1..Len(call[c].body.o["data"].a) :
                 EntryLacksIndex(call[c].body.o["data"].a[i], KeysOf(call[c].op)) ) =>
            ReturnedError(c)

\* an entry whose from and to are strings of which one is not in the layout
EntryBadTime(e) ==
    /\ e.t = "obj"
    /\ {"from", "to"} \subseteq DOMAIN e.o
    /\ e.o["from"].t = "str" /\ e.o["to"].t = "str"
    /\ \/ e.o["from"].s \notin DOMAIN TimeStrings
       \/ e.o["to"].s \notin DOMAIN TimeStrings

\* C12: when the from or the to of an entry of a success envelope does not
\* parse, the whole decode is aborted: the operation returns an error, never
\* a success with a partial or an empty list.
C12_BadTimeIsError ==
    \A c \in DOMAIN call :
        ( /\ call[c].pc = "done"
          /\ call[c].op \in ListOperations \cup SingleOperations
          /\ DataArray(call[c].body)
          /\ \A i \in 1..Len(call[c].body.o["data"].a) :
                 \/ EntryDecodes(call[c].body.o["data"].a[i], KeysOf(call[c].op))
                 \/ EntryBadTime(call[c].body.o["data"].a[i])
          /\ \E i \in 1..Len(call[c].body.o["data"].a) :
                 EntryBadTime(call[c].body.o["data"].a[i]) ) =>
            ReturnedError(c)

\* record r is entry e of the data array: its times, its index and its numbers
RecordOfEntry(op, e, r) ==
    /\ r.From = Parse(e.o["from"].s)
    /\ r.To = Parse(e.o["to"].s)
    /\ r.Index = e.o["intensity"].o["index"].s
    /\ RecordAsSpecified(op, e.o["intensity"].o, r)

\* C13: an operation expected to return exactly one entry fails with
\* UnexpectedEntryCount, holding the body, whenever the data array of
\* decodable entries holds 0 or 2 or more of them, and returns the single
\* entry when it holds exactly 1.
C13_ExactlyOneEntry ==
    \A c \in DOMAIN call :
        ( /\ call[c].pc = "done"
          /\ call[c].op \in SingleOperations
          /\ AllDecode(call[c].body, KeysOf(call[c].op)) ) =>
            IF Len(call[c].body.o["data"].a) = 1
            THEN /\ call[c].ret.st = "returned"
                 /\ call[c].ret.err = [kind |-> "nil"]
                 /\ call[c].ret.val.t = "ptr"
                 /\ RecordOfEntry(call[c].op, call[c].body.o["data"].a[1], call[c].ret.val.v)
            ELSE /\ Failed(c, "UnexpectedEntryCount")
                 /\ call[c].ret.err.body = call[c].body

C13_Witness ==
    \E c \in DOMAIN call :
        /\ call[c].op = "GetStatistics"
        /\ call[c].body = Obj([data |-> Arr(<<StatisticsFull, StatisticsFull>>)])
        /\ Failed(c, "UnexpectedEntryCount")

\* the data array holds exactly one object with the 14 keys, each a number
FactorsComplete(body) ==
    /\ DataArray(body)
    /\ Len(body.o["data"].a) = 1
    /\ body.o["data"].a[1].t = "obj"
    /\ \A key \in {"Biomass", "Coal", "Dutch Imports", "French Imports",
                    "Gas (Combined Cycle)", "Gas (Open Cycle)", "Hydro",
                    "Irish Imports", "Nuclear", "Oil", "Other", "Pumped Storage",
                    "Solar", "Wind"} : Known(body.o["data"].a[1].o, key)

\* field holds the whole number under key of object o
FieldIsKey(o, key, field) == Whole(o, key) => field * 2 = o[key].twice

\* C14: GetIntensityFactors, answered with a data array of exactly one object
\* holding all 14 known keys, succeeds and each of the 14 fields of the
\* result is the value of its own key, none that of another key.
C14_FactorsByKey ==
    \A c \in DOMAIN call :
        ( /\ call[c].pc = "done"
          /\ call[c].op = "GetIntensityFactors"
          /\ FactorsComplete(call[c].body) ) =>
            /\ call[c].ret.st = "returned"
            /\ call[c].ret.err = [kind |-> "nil"]
            /\ call[c].ret.val.t = "ptr"
            /\ LET o == call[c].body.o["data"].a[1].o
                   f == call[c].ret.val.v
               IN  /\ DOMAIN f = {"Biomass", "Coal", "DutchImports", "FrenchImports",
                                  "GasCombinedCycle", "GasOpenCycle", "Hydro",
                                  "IrishImports", "Nuclear", "Oil", "Other",
                                  "PumpedStorage", "Solar", "Wind"}
                   /\ FieldIsKey(o, "Biomass", f.Biomass)
                   /\ FieldIsKey(o, "Coal", f.Coal)
                   /\ FieldIsKey(o, "Dutch Imports", f.DutchImports)
                   /\ FieldIsKey(o, "French Imports", f.FrenchImports)
                   /\ FieldIsKey(o, "Gas (Combined Cycle)", f.GasCombinedCycle)
                   /\ FieldIsKey(o, "Gas (Open Cycle)", f.GasOpenCycle)
                   /\ FieldIsKey(o, "Hydro", f.Hydro)
                   /\ FieldIsKey(o, "Irish Imports", f.IrishImports)
                   /\ FieldIsKey(o, "Nuclear", f.Nuclear)
                   /\ FieldIsKey(o, "Oil", f.Oil)
                   /\ FieldIsKey(o, "Other", f.Other)
                   /\ FieldIsKey(o, "Pumped Storage", f.PumpedStorage)
                   /\ FieldIsKey(o, "Solar", f.Solar)
                   /\ FieldIsKey(o, "Wind", f.Wind)

C14_Witness ==
    \E c \in DOMAIN call :
        /\ call[c].pc = "done"
        /\ call[c].op = "GetIntensityFactors"
        /\ call[c].body = Obj([data |-> Arr(<<FactorsFull>>)])
        /\ call[c].ret.st = "returned"
        /\ call[c].ret.val.t = "ptr"
        /\ call[c].ret.val.v.GasCombinedCycle = 394
        /\ call[c].ret.val.v.GasOpenCycle = 651
        /\ call[c].ret.val.v.Wind = 4

\* C15: GetIntensityFactors fails the decode and returns an error to the
\* caller when the data array does not hold exactly one object and when one
\* of the 14 known keys is missing from that object.
C15_FactorsIncompleteIsError ==
    \A c \in DOMAIN call :
        ( /\ call[c].pc = "done"
          /\ call[c].op = "GetIntensityFactors"
          /\ DataArray(call[c].body)
          /\ \/ Len(call[c].body.o["data"].a) # 1
             \/ /\ call[c].body.o["data"].a[1].t = "obj"
                /\ \E key \in FactorKeys : key \notin DOMAIN call[c].body.o["data"].a[1].o ) =>
            ReturnedError(c)

\* the row of the path table for operation op called with args: the template
\* and what fills its placeholders
PathTable(op, args) ==
    CASE op = "GetCurrentIntensity" -> [tmpl |-> "/intensity"]
      [] op = "GetTodaysIntensity" -> [tmpl |-> "/intensity/date"]
      [] op = "GetIntensityFactors" -> [tmpl |-> "/intensity/factors"]
      [] op = "GetIntensityForTimePeriod" ->
            [tmpl |-> "/intensity/%s", from |-> Format(args.time)]
      [] op = "GetIntensityForDay" ->
            [tmpl |-> "/intensity/date/%04d-%02d-%02d", day |-> Date(args.date)]
      [] op = "GetIntensityForDayAndSettlementPeriod" ->
            [tmpl |-> "/intensity/date/%04d-%02d-%02d/%d",
             day |-> Date(args.date), n |-> args.settlementPeriod]
      [] op = "GetIntensityBetween" ->
            [tmpl |-> "/intensity/%s/%s",
             from |-> Format(args.from), to |-> Format(args.to)]
      [] op = "GetNext24HourIntensity" ->
            [tmpl |-> "/intensity/%s/fw24h", from |-> Format(args.from)]
      [] op = "GetNext48HourIntensity" ->
            [tmpl |-> "/intensity/%s/fw48h", from |-> Format(args.from)]
      [] op = "GetPrior24HourIntensity" ->
            [tmpl |-> "/intensity/%s/pt24h", from |-> Format(args.from)]
      [] op = "GetStatistics" ->
            [tmpl |-> "/intensity/stats/%s/%s",
             from |-> Format(args.from), to |-> Format(args.to)]
      [] op = "GetStatisticsInBlocks" ->
            [tmpl |-> "/intensity/stats/%s/%s/%d",
             from |-> Format(args.from), to |-> Format(args.to),
             n |-> args.blockSize \div 3600]

\* C16: every GET an operation issues is for the base address of the handler
\* followed by the path of the operation's row of the path table, filled
\* with the caller's parameters and nothing else: /intensity and
\* /intensity/date carry no parameter, the settlement period is passed on
\* unchanged and the block size as its whole hours.
C16_PathTable ==
    \A c \in DOMAIN call :
        Issued(c) =>
            /\ call[c].op \in Operations
            /\ call[c].url.server = serverAddress
            /\ call[c].url.resource = PathTable(call[c].op, call[c].args)

C16_Witness ==
    \E c \in DOMAIN call :
        /\ Issued(c)
        /\ call[c].op = "GetNext48HourIntensity"
        /\ call[c].url.server = testServerAddress
        /\ call[c].url.resource.tmpl = "/intensity/%s/fw48h"

\* two instants in the same zone that differ in their seconds at most
SameMinute(t, u) == t.off = u.off /\ t.sec \div 60 = u.sec \div 60

\* the parameters of a call that are timestamps
TimeKeys(args) == DOMAIN args \cap {"date", "time", "from", "to"}

\* C17: the request path has minute precision: the path an operation has
\* requested for its timestamps is the path of any other timestamps in the
\* same zones that differ from them in their seconds only.
C17_MinutePrecision ==
    \A c \in DOMAIN call :
        Issued(c) =>
            \A sub \in [TimeKeys(call[c].args) -> Times] :
                (\A k \in TimeKeys(call[c].args) : SameMinute(call[c].args[k], sub[k])) =>
                    call[c].url.resource =
                        PathTable(call[c].op,
                                  [k \in DOMAIN call[c].args |->
                                      IF k \in TimeKeys(call[c].args)
                                      THEN sub[k] ELSE call[c].args[k]])

C17_Witness ==
    \E c \in DOMAIN call :
        /\ Issued(c)
        /\ call[c].op = "GetIntensityBetween"
        /\ call[c].args.from = Time(10, 0)
        /\ call[c].url.resource.from = Format(Time(0, 0))

\* the body is JSON text, whatever its shape
ValidJSON(body) == body.t \in {"null", "num", "str", "arr", "obj"}

\* C18: whatever syntactically valid JSON the server answers, the operation
\* ends by returning a result or an error to its caller, never in a fault
\* that nothing recovers.
C18_NoUnrecoveredFault ==
    \A c \in DOMAIN call :
        (call[c].pc = "done" /\ ValidJSON(call[c].body)) =>
            call[c].ret.st = "returned"

\* C19: the handler holds its base address and nothing else, and no
\* operation changes it: every step, of a call that succeeds or fails, leaves
\* the address as construction set it; a caller whose call is over keeps
\* nothing of it, and a call that begins holds no response, record or error
\* of an earlier one.
C19_HandlerUnchanged ==
    [][ /\ serverAddress' = serverAddress
        /\ \A c \in DOMAIN call :
              /\ (call[c].pc = "done" /\ call'[c] # call[c]) => call'[c] = Idle
              /\ (call[c].pc = "idle" /\ call'[c] # call[c]) =>
                    /\ call[c] = Idle
                    /\ call'[c].body = NoBody
                    /\ call'[c].transportErr = [kind |-> "nil"]
                    /\ call'[c].pc = "waiting" =>
                          /\ call'[c].ret = NotReturned
                          /\ call'[c].url.server = serverAddress
                    /\ call'[c].pc = "done" =>
                          /\ call'[c].gets = 0
                          /\ call'[c].ret.err.kind \in
                                {"InvalidParameter", "InvalidRange", "RangeTooLarge",
                                 "InvalidBlockSize"} ]_vars

C19_Witness ==
    \E c \in DOMAIN call :
        /\ serverAddress = testServerAddress
        /\ call[c].pc = "waiting"
        /\ call[c].op = "GetIntensityFactors"
        /\ call[c].url.server = testServerAddress
        /\ call[c].body = NoBody

\* what the operation of frame f returns when it runs alone: the error of its
\* checks, the error of the transport, or what it makes of the body of its
\* own GET
ResultIsOwn(f) ==
    IF f.gets = 0
    THEN /\ f.ret.st = "returned"
         /\ f.ret.val = [t |-> "nil"]
         /\ f.ret.err =
               CASE f.op = "GetIntensityForDayAndSettlementPeriod" ->
                        SettlementPeriodError(f.args.settlementPeriod)
                 [] f.op = "GetStatisticsInBlocks" /\ RangeError(f.args.from, f.args.to) = NoError ->
                        BlockSizeError(f.args.blockSize)
                 [] OTHER -> RangeError(f.args.from, f.args.to)
         /\ f.ret.err # [kind |-> "nil"]
    ELSE IF f.body.t = "none"
    THEN f.ret = [st |-> "returned", val |-> [t |-> "nil"], err |-> f.transportErr]
    ELSE f.ret = Continue(f.op, f.body)

\* C20: calls made concurrently on one handler do not interfere: a step of
\* one call leaves the other call and the handler as they were, and the
\* result of each call is the one its own parameters and the answer to its
\* own GET give when the call runs alone.
C20_NoInterference ==
    [][ /\ serverAddress' = serverAddress
        /\ \A c \in DOMAIN call, d \in DOMAIN call :
              (c # d /\ call'[c] # call[c]) => call'[d] = call[d]
        /\ \A c \in DOMAIN call :
              call'[c].pc = "done" => ResultIsOwn(call'[c]) ]_vars

C20_Witness ==
    /\ call["c1"].pc = "waiting"
    /\ call["c1"].op = "GetStatistics"
    /\ call["c2"].pc = "done"
    /\ call["c2"].op = "GetIntensityForDay"
    /\ call["c2"].body = Obj([data |-> Arr(<<IntensityLow>>)])
    /\ call["c2"].ret.st = "returned"
    /\ call["c2"].ret.val.t = "list"

\* the operations that return Intensity records
IntensityOperations == (ListOperations \cup SingleOperations) \ StatisticsOperations

\* C21: every Intensity record an operation returns has its From strictly
\* before its To.
C21_FromBeforeTo ==
    \A c \in DOMAIN call :
        ( /\ call[c].pc = "done"
          /\ call[c].op \in IntensityOperations
          /\ call[c].ret.st = "returned"
          /\ call[c].ret.err = [kind |-> "nil"] ) =>
            \A i \in 1..Len(Records(call[c].ret)) :
                Records(call[c].ret)[i].From.sec < Records(call[c].ret)[i].To.sec

\* C22: a list operation answered with a success envelope whose entries all
\* decode returns one record for each element of the data array, in the
\* order of the array, each with the from, the to, the index and the numbers
\* of its element: 42 blocks give 42 Statistics, and an empty array gives an
\* empty list and no error.
C22_OneRecordPerEntry ==
    \A c \in DOMAIN call :
        ( /\ call[c].pc = "done"
          /\ call[c].op \in ListOperations
          /\ AllDecode(call[c].body, KeysOf(call[c].op)) ) =>
            /\ call[c].ret.st = "returned"
            /\ call[c].ret.err = [kind |-> "nil"]
            /\ call[c].ret.val.t = "list"
            /\ Len(call[c].ret.val.entries) = Len(call[c].body.o["data"].a)
            /\ \A i \in 1..Len(call[c].body.o["data"].a) :
                   RecordOfEntry(call[c].op, call[c].body.o["data"].a[i],
                                 call[c].ret.val.entries[i])

C22_Witness ==
    \E c \in DOMAIN call :
        /\ call[c].pc = "done"
        /\ call[c].op = "GetStatisticsInBlocks"
        /\ call[c].args.blockSize = 4 * Hour
        /\ call[c].body = Obj([data |-> Arr(BlocksOfAWeek)])
        /\ call[c].ret.st = "returned"
        /\ call[c].ret.err = [kind |-> "nil"]
        /\ Len(call[c].ret.val.entries) = 42
        /\ call[c].ret.val.entries[1].Max = 300
        /\ call[c].ret.val.entries[42].Max = 0 - 1

\* the instant a timestamp of a request path denotes, in seconds
PathInstant(f) == f.day * Day + f.hh * Hour + f.mm * Minute - f.off * Minute

\* C23: when the range checks of GetIntensityBetween, GetStatistics or
\* GetStatisticsInBlocks pass, the from written into the request path is an
\* instant strictly before the to written into it.
C23_PathFromBeforeTo ==
    \A c \in DOMAIN call :
        (Issued(c) /\ call[c].op \in RangeOperations) =>
            PathInstant(call[c].url.resource.from) < PathInstant(call[c].url.resource.to)

\* C24: whatever an operation returns is either a result with a nil error or
\* a nil result with an error: an error never comes with a record or a list,
\* be it the error of a check, of the transport, of an error envelope, of a
\* malformed payload or of an unexpected number of entries.
C24_ResultOrError ==
    \A c \in DOMAIN call :
        (call[c].pc = "done" /\ call[c].ret.st = "returned") =>
            \/ /\ call[c].ret.err = [kind |-> "nil"]
               /\ call[c].ret.val.t \in {"list", "ptr"}
            \/ /\ call[c].ret.err # [kind |-> "nil"]
               /\ call[c].ret.val = [t |-> "nil"]

C24_Witness ==
    \E c \in DOMAIN call :
        /\ call[c].pc = "done"
        /\ call[c].op = "GetStatisticsInBlocks"
        /\ call[c].gets = 0
        /\ call[c].ret.st = "returned"
        /\ call[c].ret.err.kind = "InvalidBlockSize"
        /\ call[c].ret.val = [t |-> "nil"]

\* the JSON object body with field key taken out
Without(body, key) == [t |-> "obj", o |-> [k \in DOMAIN body.o \ {key} |-> body.o[k]]]

\* the outcome ret, its error holding body where it holds the raw body
WithBody(ret, body) ==
    IF ret.st = "returned" /\ ret.err.kind \in {"MalformedResponse", "UnexpectedEntryCount"}
    THEN [ret EXCEPT !.err.body = body]
    ELSE ret

\* C25: the payload is classified by its data field first. A body with a
\* data field that is not null and an error field is decoded as the same
\* body without the error field; a body whose data field is null is decoded
\* as the same body without the data field: an error envelope when there is
\* an error field, a malformed response when there is none.
C25_DataFirst ==
    \A c \in DOMAIN call :
        (call[c].pc = "done" /\ call[c].body.t = "obj" /\ "data" \in DOMAIN call[c].body.o) =>
            IF call[c].body.o["data"].t = "null"
            THEN /\ call[c].ret =
                        WithBody(Continue(call[c].op, Without(call[c].body, "data")), call[c].body)
                 /\ ErrorEnvelope(Without(call[c].body, "data")) =>
                        /\ Failed(c, "APIError")
                        /\ call[c].ret.err.code = call[c].body.o["error"].o["code"].s
                 /\ "error" \notin DOMAIN call[c].body.o =>
                        /\ Failed(c, "MalformedResponse")
                        /\ call[c].ret.err.body = call[c].body
            ELSE "error" \in DOMAIN call[c].body.o =>
                     /\ call[c].ret =
                            WithBody(Continue(call[c].op, Without(call[c].body, "error")),
                                     call[c].body)
                     /\ call[c].ret.st = "returned" => call[c].ret.err.kind # "APIError"

C25_Witness ==
    \E c \in DOMAIN call :
        /\ call[c].pc = "done"
        /\ call[c].op = "GetIntensityForDay"
        /\ call[c].body = Obj([data |-> Arr(<<IntensityLow>>), error |-> ErrorJSON])
        /\ call[c].ret.st = "returned"
        /\ call[c].ret.err = [kind |-> "nil"]
        /\ Len(call[c].ret.val.entries) = 1

\* the block size of the call is outside 1..24 whole hours
BlockSizeInvalid(c) ==
    WholeHours(call[c].args.blockSize) < 1 \/ WholeHours(call[c].args.blockSize) > 24

\* C26: GetStatisticsInBlocks reports the first check that fails, in the
\* order from before to, span of at most 30 days, block size: with an invalid
\* range the error is the range error whatever the block size, and the
\* block-size error is returned for a valid range only.
C26_CheckOrder ==
    \A c \in DOMAIN call :
        (call[c].pc = "done" /\ call[c].op = "GetStatisticsInBlocks") =>
            /\ ~FromBeforeTo(c) => Failed(c, "InvalidRange")
            /\ (FromBeforeTo(c) /\ Span(c) > ThirtyDays) => Failed(c, "RangeTooLarge")
            /\ (RangeOk(c) /\ BlockSizeInvalid(c)) => Failed(c, "InvalidBlockSize")
            /\ (~RangeOk(c) \/ BlockSizeInvalid(c)) => call[c].gets = 0

C26_Witness ==
    \E c \in DOMAIN call :
        /\ call[c].pc = "done"
        /\ call[c].op = "GetStatisticsInBlocks"
        /\ ~FromBeforeTo(c)
        /\ BlockSizeInvalid(c)
        /\ Failed(c, "InvalidRange")

=============================================================================
